---- MODULE Spec2Model ----
(***************************************************************************)
(* Model of arduino_palette_sketch/backup.cpp: a serial line framer, the   *)
(* palette / single-colour parsers, and the deferred renderer of loop().   *)
(* Characters are their ASCII codes; a C string is the sequence of its     *)
(* characters before the NUL, and a char* is a 0-based offset into it.     *)
(***************************************************************************)
EXTENDS Integers, Sequences, FiniteSets, TLC

(* ------------------------- program constants -------------------------- *)
NUM_LEDS == 256
MAX_PALETTE == 49
BUF_SIZE == 512
BUF_LIMIT == 510

(* const float factors as IEEE-754 single values m * 2^-e, m a 24-bit      *)
(* significand: 1.00f, 0.75f, and 0.90f = 15099494 * 2^-24.                *)
RED_FACTOR == [m |-> 8388608, e |-> 23]
GREEN_FACTOR == [m |-> 12582912, e |-> 24]
BLUE_FACTOR == [m |-> 15099494, e |-> 24]

(* int of the AVR target: 16 bits, two's complement.                       *)
INT_MAX == 32767
INT_MOD == 2 * (INT_MAX + 1)

(* ----------------------------- characters ----------------------------- *)
NUL == 0
LF == 10
CR == 13
SPACE == 32
PLUS == 43
COMMA == 44
MINUS == 45
CH_0 == 48
CH_9 == 57
COLON == 58
CH_A == 65
CH_F == 70
CH_P == 80
CH_a == 97
CH_f == 102

Min(a, b) == IF a < b THEN a ELSE b

(* s[p] for a C string s and offset p: the NUL at and past the end.        *)
At(s, p) == IF p >= 0 /\ p < Len(s) THEN s[p + 1] ELSE NUL

(* --------------------------- float arithmetic ------------------------- *)
RECURSIVE Pow2(_)
Pow2(n) == IF n = 0 THEN 1 ELSE 2 * Pow2(n - 1)

RECURSIVE Bits(_)
Bits(n) == IF n = 0 THEN 0 ELSE 1 + Bits(n \div 2)

(* (int)(x * f): x converted to float, one single-precision multiply       *)
(* rounded to nearest-even at 24 significant bits, then truncated.  The    *)
(* exact product x * f.m is held as T * 4096 + low to stay in 32 bits.     *)
FloatMulTrunc(x, f) ==
    LET B    == x * (f.m % 4096)
        T    == x * (f.m \div 4096) + B \div 4096
        low  == B % 4096
        nb   == IF T > 0 THEN Bits(T) + 12 ELSE Bits(low)
        s    == IF nb > 24 THEN nb - 24 ELSE 0
        q    == low \div Pow2(s)
        r    == low % Pow2(s)
        half == Pow2(s) \div 2
        up   == s > 0 /\ (r > half \/ (r = half /\ q % 2 = 1))
        lowR == (q + IF up THEN 1 ELSE 0) * Pow2(s)
        Tr   == T + lowR \div 4096
    IN  Tr \div Pow2(f.e - 12)

(* constrain(amt, low, high) of Arduino.h                                  *)
constrain(amt, low, high) ==
    IF amt < low THEN low ELSE IF amt > high THEN high ELSE amt

(* ------------------------------ hexToByte ----------------------------- *)
HexNibbleNoUpper(c) ==
    IF c >= CH_0 /\ c <= CH_9 THEN c - CH_0
    ELSE IF c >= CH_a THEN c - CH_a + 10
    ELSE IF c >= CH_A THEN c - CH_A + 10
    ELSE 0

HexNibble(c) ==
    IF c >= CH_0 /\ c <= CH_9 THEN c - CH_0
    ELSE IF c >= CH_A /\ c <= CH_F THEN c - CH_A + 10
    ELSE IF c >= CH_a /\ c <= CH_f THEN c - CH_a + 10
    ELSE 0

(* val = nibble(hi) << 4; val |= nibble(lo): the nibbles do not overlap.   *)
hexToByte(hi, lo) == HexNibble(hi) * 16 + HexNibble(lo)

(* ----------------------- decimal integer scanning --------------------- *)
IsSpace(c) == c = SPACE \/ (c >= 9 /\ c <= 13)
IsDigit(c) == c >= CH_0 /\ c <= CH_9

RECURSIVE SkipSpace(_, _)
SkipSpace(s, p) == IF IsSpace(At(s, p)) THEN SkipSpace(s, p + 1) ELSE p

(* Digits from offset p: the magnitude saturated at INT_MAX + 2, the same  *)
(* magnitude modulo 2^16, and the offset after the last digit.             *)
RECURSIVE ScanDigits(_, _, _, _)
ScanDigits(s, p, mag, wrap) ==
    IF IsDigit(At(s, p))
    THEN ScanDigits(s, p + 1,
                    Min(mag * 10 + (At(s, p) - CH_0), INT_MAX + 2),
                    (wrap * 10 + (At(s, p) - CH_0)) % INT_MOD)
    ELSE [mag |-> mag, wrap |-> wrap, next |-> p]

ToSigned(w) == IF w > INT_MAX THEN w - INT_MOD ELSE w

(* The int a digit string converts to.  A value int cannot represent is    *)
(* undefined behaviour of atoi / %d: the library either keeps the low 16   *)
(* bits (avr-libc) or saturates (strtol-based libraries).                  *)
IntValue(neg, d, lib) ==
    IF (~neg /\ d.mag <= INT_MAX) \/ (neg /\ d.mag <= INT_MAX + 1)
    THEN (IF neg THEN 0 - d.mag ELSE d.mag)
    ELSE IF lib = "wrap"
         THEN ToSigned((IF neg THEN INT_MOD - d.wrap ELSE d.wrap) % INT_MOD)
         ELSE (IF neg THEN 0 - INT_MAX - 1 ELSE INT_MAX)

(* One %d conversion of sscanf: skip white space, optional sign, at least  *)
(* one digit.                                                              *)
ScanInt(s, p, lib) ==
    LET p1  == SkipSpace(s, p)
        sgn == At(s, p1) = MINUS \/ At(s, p1) = PLUS
        p2  == IF sgn THEN p1 + 1 ELSE p1
        d   == ScanDigits(s, p2, 0, 0)
    IN  [ok   |-> d.next > p2,
         val  |-> IntValue(At(s, p1) = MINUS, d, lib),
         next |-> d.next]

(* atoi: as one %d conversion, 0 when there is no digit.                   *)
atoi(s, p, lib) ==
    LET c == ScanInt(s, p, lib) IN IF c.ok THEN c.val ELSE 0

(* strchr(s + p, ch): offset of the first ch at or after p, -1 for NULL.   *)
strchr(s, p, ch) ==
    LET hits == {q \in p..(Len(s) - 1) : s[q + 1] = ch}
    IN  IF hits = {} THEN -1 ELSE CHOOSE q \in hits : \A j \in hits : q <= j

(* sscanf(data, "%d,%d,%d", &r, &g, &b): the number of conversions done    *)
(* and the values stored; r, g, b start at 0 and trailing text is ignored. *)
sscanf3(s, lib) ==
    LET a == ScanInt(s, 0, lib)
        b == ScanInt(s, a.next + 1, lib)
        c == ScanInt(s, b.next + 1, lib)
    IN  IF ~a.ok THEN [cnt |-> 0, r |-> 0, g |-> 0, b |-> 0]
        ELSE IF At(s, a.next) # COMMA \/ ~b.ok
             THEN [cnt |-> 1, r |-> a.val, g |-> 0, b |-> 0]
        ELSE IF At(s, b.next) # COMMA \/ ~c.ok
             THEN [cnt |-> 2, r |-> a.val, g |-> b.val, b |-> 0]
        ELSE [cnt |-> 3, r |-> a.val, g |-> b.val, b |-> c.val]

(* ----------------------------- Render State --------------------------- *)
(* The globals of lines 19-30 as one record, for the parsers to update.    *)
RenderStateOf(pm, ps, pr, pg, pb, cr, cg, cb, nu) ==
    [paletteMode |-> pm, paletteSize |-> ps,
     paletteR |-> pr, paletteG |-> pg, paletteB |-> pb,
     currentR |-> cr, currentG |-> cg, currentB |-> cb,
     needsUpdate |-> nu]

(* The for loop of parsePalette: entry i is read at offset ptr and stored  *)
(* straight into the global arrays; done is FALSE on the early return.     *)
RECURSIVE PaletteLoop(_, _, _, _, _)
PaletteLoop(s, ptr, i, n, rs) ==
    IF i >= n THEN [done |-> TRUE, rs |-> rs]
    ELSE IF Len(s) - ptr < 6 THEN [done |-> FALSE, rs |-> rs]
    ELSE LET r  == FloatMulTrunc(hexToByte(At(s, ptr), At(s, ptr + 1)), RED_FACTOR)
             g  == FloatMulTrunc(hexToByte(At(s, ptr + 2), At(s, ptr + 3)), GREEN_FACTOR)
             b  == FloatMulTrunc(hexToByte(At(s, ptr + 4), At(s, ptr + 5)), BLUE_FACTOR)
             p6 == ptr + 6
         IN  PaletteLoop(s, IF At(s, p6) = COLON THEN p6 + 1 ELSE p6, i + 1, n,
                         [rs EXCEPT !.paletteR[i] = r,
                                    !.paletteG[i] = g,
                                    !.paletteB[i] = b])

(* The count check of line 63.                                             *)
CountOutOfRangeOffByOne(n) == n < 1 \/ n >= MAX_PALETTE

CountOutOfRangeNoLower(n) == n > MAX_PALETTE

CountOutOfRange(n) == n < 1 \/ n > MAX_PALETTE

(* parsePalette(data): the Render State it leaves, and ok = it reached the *)
(* commit of lines 78-80.                                                  *)
parsePalette(s, rs, lib) ==
    LET n   == atoi(s, 2, lib)
        sep == strchr(s, 2, COLON)
    IN  IF CountOutOfRange(n) THEN [ok |-> FALSE, rs |-> rs]
        ELSE IF sep < 0 THEN [ok |-> FALSE, rs |-> rs]
        ELSE LET l == PaletteLoop(s, sep + 1, 0, n, rs)
             IN  IF ~l.done THEN [ok |-> FALSE, rs |-> l.rs]
                 ELSE [ok |-> TRUE,
                       rs |-> [l.rs EXCEPT !.paletteSize = n,
                                           !.paletteMode = TRUE,
                                           !.needsUpdate = TRUE]]

(* parseSingle(data)                                                       *)
parseSingleAccumulate(s, rs, lib) ==
    LET c == sscanf3(s, lib)
    IN  IF c.cnt = 3
        THEN [ok |-> TRUE,
              rs |-> [rs EXCEPT
                  !.currentR = (@ + FloatMulTrunc(constrain(c.r, 0, 255), RED_FACTOR)) % 256,
                  !.currentG = (@ + FloatMulTrunc(constrain(c.g, 0, 255), GREEN_FACTOR)) % 256,
                  !.currentB = (@ + FloatMulTrunc(constrain(c.b, 0, 255), BLUE_FACTOR)) % 256,
                  !.paletteMode = FALSE,
                  !.needsUpdate = TRUE]]
        ELSE [ok |-> FALSE, rs |-> rs]

parseSingle(s, rs, lib) ==
    LET c == sscanf3(s, lib)
    IN  IF c.cnt = 3
        THEN [ok |-> TRUE,
              rs |-> [rs EXCEPT
                  !.currentR = FloatMulTrunc(constrain(c.r, 0, 255), RED_FACTOR),
                  !.currentG = FloatMulTrunc(constrain(c.g, 0, 255), GREEN_FACTOR),
                  !.currentB = FloatMulTrunc(constrain(c.b, 0, 255), BLUE_FACTOR),
                  !.paletteMode = FALSE,
                  !.needsUpdate = TRUE]]
        ELSE [ok |-> FALSE, rs |-> rs]

(* The dispatch of lines 105-109 on the NUL-terminated buffer text.        *)
IsPaletteLine(s) == At(s, 0) = CH_P /\ At(s, 1) = COLON

Dispatch(s, rs, lib) ==
    IF IsPaletteLine(s) THEN parsePalette(s, rs, lib)
    ELSE parseSingle(s, rs, lib)

(* CRGB(r, g, b): three uint8_t channels.                                  *)
CRGB(r, g, b) == <<r % 256, g % 256, b % 256>>

(* The compositor of lines 123-134.                                        *)
PaletteIndex(i, size) ==
    LET ledsPerBlock == NUM_LEDS \div size
        idx == i \div ledsPerBlock
    IN  IF idx >= size THEN size - 1 ELSE idx

Composite(rs) ==
    IF rs.paletteMode /\ rs.paletteSize > 0
    THEN [i \in 0..(NUM_LEDS - 1) |->
             LET idx == PaletteIndex(i, rs.paletteSize)
             IN  CRGB(rs.paletteR[idx], rs.paletteG[idx], rs.paletteB[idx])]
    ELSE [i \in 0..(NUM_LEDS - 1) |->
             CRGB(rs.currentR, rs.currentG, rs.currentB)]

(* The C string held by the line buffer: the characters before the NUL.    *)
StrLen(buf) ==
    LET nuls == {k \in DOMAIN buf : buf[k] = NUL}
    IN  CHOOSE k \in nuls : \A j \in nuls : k <= j

CStr(buf) == [i \in 1..StrLen(buf) |-> buf[i - 1]]

IsTerminator(c) == c = LF \/ c = CR

(* ======================= the host and its lines ======================= *)
(* The host sends lines built from command descriptors:                    *)
(*   k = "flat": cols[1] are the three decimal integers sent;              *)
(*   k = "pal" : count n, then the 6-hex entries cols, with or without a   *)
(*               separator between them, in upper or lower case;           *)
(*   k = "junk": the characters raw;  k = "fill": n copies of 'x'.         *)
(* raw is appended to the text of a flat or pal line, term ends the line.  *)
MaxLines == 2
MaxBurst == 2
LongLen == 513

FillChar == CH_a + 23

RECURSIVE Itoa(_)
Itoa(n) ==
    IF n < 0 THEN <<MINUS>> \o Itoa(0 - n)
    ELSE IF n < 10 THEN <<CH_0 + n>>
    ELSE Itoa(n \div 10) \o <<CH_0 + (n % 10)>>

HexChar(v, lower) ==
    IF v < 10 THEN CH_0 + v
    ELSE IF lower THEN CH_a + (v - 10) ELSE CH_A + (v - 10)

Hex2(v, lower) == <<HexChar(v \div 16, lower), HexChar(v % 16, lower)>>

Hex6(col, lower) ==
    Hex2(col[1], lower) \o Hex2(col[2], lower) \o Hex2(col[3], lower)

RECURSIVE Entries(_, _, _, _)
Entries(cols, i, sep, lower) ==
    IF i > Len(cols) THEN <<>>
    ELSE Hex6(cols[i], lower)
         \o (IF sep /\ i < Len(cols) THEN <<COLON>> ELSE <<>>)
         \o Entries(cols, i + 1, sep, lower)

FlatCmd(r, g, b, raw, term) ==
    [k |-> "flat", n |-> 0, cols |-> <<<<r, g, b>>>>, sep |-> FALSE,
     lower |-> FALSE, raw |-> raw, term |-> term]

PalCmd(n, cols, sep, lower, raw, term) ==
    [k |-> "pal", n |-> n, cols |-> cols, sep |-> sep,
     lower |-> lower, raw |-> raw, term |-> term]

JunkCmd(raw, term) ==
    [k |-> "junk", n |-> 0, cols |-> <<>>, sep |-> FALSE,
     lower |-> FALSE, raw |-> raw, term |-> term]

FillCmd(n, term) ==
    [k |-> "fill", n |-> n, cols |-> <<>>, sep |-> FALSE,
     lower |-> FALSE, raw |-> <<>>, term |-> term]

NoCmd == [k |-> "none", n |-> 0, cols |-> <<>>, sep |-> FALSE,
          lower |-> FALSE, raw |-> <<>>, term |-> <<>>]

(* The characters of a line, without its terminator.                       *)
Text(d) ==
    IF d.k = "flat"
    THEN Itoa(d.cols[1][1]) \o <<COMMA>> \o Itoa(d.cols[1][2]) \o <<COMMA>>
         \o Itoa(d.cols[1][3]) \o d.raw
    ELSE IF d.k = "pal"
    THEN <<CH_P, COLON>> \o Itoa(d.n) \o <<COLON>>
         \o Entries(d.cols, 1, d.sep, d.lower) \o d.raw
    ELSE IF d.k = "fill" THEN [i \in 1..d.n |-> FillChar]
    ELSE d.raw

Wire(d) == Text(d) \o d.term

(* Colours used by the catalogues.                                         *)
Red == <<255, 0, 0>>
Green == <<0, 255, 0>>
Blue == <<0, 0, 255>>
Grey == <<170, 187, 204>>
Tint(i) == <<(i * 37) % 256, (i * 101 + 10) % 256, 255 - i>>

(* "garbage", "P:2" and "1,2"                                              *)
Garbage == <<103, 97, 114, 98, 97, 103, 101>>
NoSep == <<CH_P, COLON, CH_0 + 2>>
TwoInts == <<CH_0 + 1, COMMA, CH_0 + 2>>

(* "1,2,3xyz": three integers and further characters                       *)
Trailing == <<CH_0 + 1, COMMA, CH_0 + 2, COMMA, CH_0 + 3,
              CH_a + 23, CH_a + 24, CH_a + 25>>

(* "G7:z9Z:0AbCdE": two palette entries of six characters, the first with  *)
(* characters that are no hex digits, a colon among them                   *)
OddEntries == <<CH_A + 6, CH_0 + 7, COLON, CH_a + 25, CH_9, CH_A + 25, COLON,
                CH_0, CH_A, CH_a + 1, CH_A + 2, CH_a + 3, CH_A + 4>>

(* Every line a host may send, by number; 0 stands for no line.            *)
Cmds ==
    << FlatCmd(255, 0, 0, <<>>, <<LF>>),
       PalCmd(2, <<Green, Blue>>, TRUE, FALSE, <<>>, <<CR, LF>>),
       FlatCmd(10, 20, 30, <<>>, <<CR>>),
       PalCmd(2, <<Green, Blue>>, TRUE, FALSE, <<>>, <<LF>>),
       PalCmd(2, <<Red>>, TRUE, FALSE, <<>>, <<LF>>),
       JunkCmd(Garbage, <<LF>>),
       PalCmd(3, <<Grey, Red, Tint(7)>>, FALSE, TRUE, <<>>, <<CR, LF>>),
       PalCmd(0, <<>>, TRUE, FALSE, <<>>, <<LF>>),
       JunkCmd(NoSep, <<CR>>),
       FlatCmd(0 - 5, 300, 128, <<>>, <<LF>>),
       FlatCmd(40000, 10, 250, <<>>, <<LF>>),
       JunkCmd(TwoInts, <<LF>>),
       FlatCmd(0, 0, 0, <<>>, <<LF>>),
       PalCmd(1, <<Red>>, TRUE, FALSE, <<>>, <<CR, LF>>),
       PalCmd(MAX_PALETTE, [i \in 1..MAX_PALETTE |-> Tint(i)],
              TRUE, FALSE, <<>>, <<LF>>),
       PalCmd(MAX_PALETTE + 1, [i \in 1..(MAX_PALETTE + 1) |-> Tint(i)],
              TRUE, FALSE, <<>>, <<LF>>),
       FillCmd(LongLen, <<LF>>),
       FlatCmd(10, 20, 30, <<>>, <<LF>>),
       JunkCmd(Trailing, <<LF>>),
       PalCmd(2, <<>>, TRUE, FALSE, OddEntries, <<LF>>) >>

Cmd(id) == IF id = 0 THEN NoCmd ELSE Cmds[id]

(* The repertoire of one host session.                                     *)
Catalogue(suite) ==
    IF suite = "mode" THEN 1..3
    ELSE IF suite = "reject" THEN 4..6
    ELSE IF suite = "pal" THEN 7..9
    ELSE IF suite = "flat" THEN 10..12
    ELSE IF suite = "black" THEN 13..14
    ELSE IF suite = "max" THEN {15}
    ELSE IF suite = "over" THEN {16}
    ELSE IF suite = "long" THEN 17..18
    ELSE IF suite = "lenient" THEN 19..20
    ELSE {1}

Suites == {"mode", "reject", "pal", "flat", "black", "max", "over", "long",
           "lenient", "solo"}
Libs == {"wrap", "sat"}

(* The bytes of every line, terminator included.                           *)
WireTable == [id \in DOMAIN Cmds |-> Wire(Cmds[id])]

(* What the protocol of the specification says of a line: a flat line is   *)
(* always valid, a palette line when its count is in range and it carries  *)
(* at least that many entries.                                             *)
SpecValid(d) ==
    \/ d.k = "flat"
    \/ d.k = "pal" /\ d.n >= 1 /\ d.n <= MAX_PALETTE /\ Len(d.cols) >= d.n

(* Calibration as the specification states it: value times factor,         *)
(* truncated.                                                              *)
SpecCal(col) == <<col[1], (col[2] * 3) \div 4, (col[3] * 9) \div 10>>

SpecClamp(v) == IF v < 0 THEN 0 ELSE IF v > 255 THEN 255 ELSE v

(* The frame the specification gives a valid command.                      *)
ExpectedFrame(d) ==
    IF d.k = "flat"
    THEN [i \in 0..(NUM_LEDS - 1) |->
             SpecCal(<<SpecClamp(d.cols[1][1]), SpecClamp(d.cols[1][2]),
                       SpecClamp(d.cols[1][3])>>)]
    ELSE [i \in 0..(NUM_LEDS - 1) |->
             SpecCal(d.cols[Min(i \div (NUM_LEDS \div d.n), d.n - 1) + 1])]

FrameTable ==
    [id \in DOMAIN Cmds |->
        IF SpecValid(Cmds[id]) THEN ExpectedFrame(Cmds[id]) ELSE <<>>]

(* Dispatches the framing rule of the specification yields on the queued   *)
(* bytes q when pos characters are already accumulated: one per terminator *)
(* that follows a non-terminator.                                          *)
CountLines(q, pos) ==
    Cardinality({i \in 1..Len(q) :
        /\ IsTerminator(q[i])
        /\ IF i = 1 THEN pos > 0 ELSE ~IsTerminator(q[i - 1])})

(* ================================ state =============================== *)
VARIABLES
    paletteMode, paletteSize, paletteR, paletteG, paletteB,
    currentR, currentG, currentB, needsUpdate,
    inputBuffer, bufferPos, leds, pin13,
    pc,          \* position in loop(): "drain" (line 97) or "render" (122)
    rx,          \* bytes Serial holds unread
    wire,        \* bytes of the current line the host has yet to deliver
    linesLeft, suite, lib,
    endless,     \* the host never runs out of lines
    last,        \* the last step of the device
    inflight,    \* numbers of the lines sent and not yet dispatched
    lastDisp,    \* number of the last line dispatched
    lastOk,      \* whether the parser committed it
    lastValid,   \* last dispatched line the specification calls valid
    validRs,     \* the Render State as the dispatch of lastValid left it
    rejSince,    \* a line was rejected since lastValid
    sinceShow,   \* lines dispatched since the last transmit
    accepted,    \* a command was accepted since the last transmit
    midShow,     \* a frame was transmitted since the current line began
    lastSplit,   \* such a transmit fell inside the last line dispatched
    startAvail, startLines,   \* bytes / complete lines queued when loop() began
    rdCnt, dispCnt,           \* bytes read / lines dispatched in this loop()
    exitAvail,   \* Serial.available() seen when the while loop was left
    runLen       \* non-terminator bytes read since the last terminator

renderVars == <<paletteMode, paletteSize, paletteR, paletteG, paletteB,
                currentR, currentG, currentB, needsUpdate>>
bufVars == <<inputBuffer, bufferPos>>
hostVars == <<wire, linesLeft, suite, lib, endless>>
histVars == <<lastDisp, lastOk, lastValid, validRs, rejSince, accepted,
             lastSplit>>
iterVars == <<startAvail, startLines, rdCnt, dispCnt>>
vars == <<renderVars, bufVars, leds, pin13, pc, rx, hostVars, last, inflight,
          histVars, sinceShow, midShow, iterVars, exitAvail, runLen>>

RenderState ==
    RenderStateOf(paletteMode, paletteSize, paletteR, paletteG, paletteB,
                  currentR, currentG, currentB, needsUpdate)

SetRenderState(rs) ==
    /\ paletteMode' = rs.paletteMode
    /\ paletteSize' = rs.paletteSize
    /\ paletteR' = rs.paletteR
    /\ paletteG' = rs.paletteG
    /\ paletteB' = rs.paletteB
    /\ currentR' = rs.currentR
    /\ currentG' = rs.currentG
    /\ currentB' = rs.currentB
    /\ needsUpdate' = rs.needsUpdate

(* Globals zero-initialised, then setup(): FastLED.clear(); show(). The    *)
(* host of a session draws its lines from one of the suites ss and either  *)
(* has MaxLines of them (e false) or never runs out (e true).              *)
Start(ss, e) ==
    /\ paletteMode = FALSE
    /\ paletteSize = 0
    /\ paletteR = [i \in 0..(MAX_PALETTE - 1) |-> 0]
    /\ paletteG = [i \in 0..(MAX_PALETTE - 1) |-> 0]
    /\ paletteB = [i \in 0..(MAX_PALETTE - 1) |-> 0]
    /\ currentR = 0 /\ currentG = 0 /\ currentB = 0
    /\ needsUpdate = FALSE
    /\ inputBuffer = [i \in 0..(BUF_SIZE - 1) |-> NUL]
    /\ bufferPos = 0
    /\ leds = [i \in 0..(NUM_LEDS - 1) |-> CRGB(0, 0, 0)]
    /\ pin13 = FALSE
    /\ pc = "drain"
    /\ rx = <<>> /\ wire = <<>>
    /\ linesLeft = MaxLines
    /\ suite \in ss
    /\ endless = e
    /\ lib \in (IF suite = "flat" THEN Libs ELSE {"wrap"})
    /\ last = "setup"
    /\ inflight = <<>>
    /\ lastDisp = 0 /\ lastOk = FALSE /\ lastValid = 0
    /\ validRs = RenderState
    /\ rejSince = FALSE
    /\ sinceShow = "none"
    /\ accepted = FALSE /\ midShow = FALSE /\ lastSplit = FALSE
    /\ startAvail = 0 /\ startLines = 0 /\ rdCnt = 0 /\ dispCnt = 0
    /\ exitAvail = 0
    /\ runLen = 0

Init == Start(Suites, FALSE)

deviceVars == <<renderVars, bufVars, leds, pin13, pc, last, histVars,
                sinceShow, midShow, iterVars, exitAvail, runLen>>

(* The counters of one loop() are kept for hosts that run out of lines.    *)
Count(c) == IF endless THEN c ELSE c + 1

(* The host queues a line: the first cut bytes arrive now, the rest later. *)
Cuts(d) == {(Len(WireTable[d]) - Len(Cmds[d].term) + 1) \div 2, Len(WireTable[d])}

Send(d) ==
    /\ linesLeft > 0
    /\ wire = <<>>
    /\ Len(inflight) < MaxBurst
    /\ linesLeft' = IF endless THEN linesLeft ELSE linesLeft - 1
    /\ inflight' = Append(inflight, d)
    /\ \E cut \in Cuts(d) :
        /\ rx' = rx \o SubSeq(WireTable[d], 1, cut)
        /\ wire' = SubSeq(WireTable[d], cut + 1, Len(WireTable[d]))
    /\ UNCHANGED <<suite, lib, endless, deviceVars>>

(* The rest of a line arrives.                                             *)
Flush ==
    /\ wire # <<>>
    /\ rx' = rx \o wire
    /\ wire' = <<>>
    /\ UNCHANGED <<linesLeft, suite, lib, endless, inflight, deviceVars>>

(* Serial.available()                                                      *)
SerialAvailable == Len(rx)

(* The while condition of line 97.                                         *)
DrainMoreOnce == SerialAvailable > 0 /\ rdCnt = 0

DrainMore == SerialAvailable > 0

(* The guard of line 112.                                                  *)
HasRoomFull(pos) == pos < BUF_SIZE

HasRoomToCapacity(pos) == pos < BUF_SIZE - 1

HasRoom(pos) == pos < BUF_LIMIT

(* The guard of line 101.                                                  *)
LineReadyAlways(pos) == pos >= 0

LineReady(pos) == pos > 0

(* One pass of the while loop body, lines 98-114.                          *)
ReadByte ==
    /\ pc = "drain"
    /\ DrainMore
    /\ LET c == Head(rx) IN
       /\ rx' = Tail(rx)
       /\ rdCnt' = Count(rdCnt)
       /\ last' = "read"
       /\ IF IsTerminator(c)
          THEN /\ bufferPos' = 0
               /\ runLen' = 0
               /\ midShow' = FALSE
               /\ IF LineReady(bufferPos)
                  THEN LET buf == [inputBuffer EXCEPT ![bufferPos] = NUL]
                           res == Dispatch(CStr(buf), RenderState, lib)
                           d   == IF inflight = <<>> THEN 0 ELSE Head(inflight)
                       IN  /\ inputBuffer' = buf
                           /\ pin13' = TRUE
                           /\ SetRenderState(res.rs)
                           /\ inflight' = IF inflight = <<>> THEN <<>> ELSE Tail(inflight)
                           /\ dispCnt' = Count(dispCnt)
                           /\ lastDisp' = d
                           /\ lastOk' = res.ok
                           /\ lastValid' = IF SpecValid(Cmd(d)) THEN d
                                           ELSE IF res.ok THEN 0 ELSE lastValid
                           /\ validRs' = IF SpecValid(Cmd(d)) \/ res.ok THEN res.rs
                                         ELSE validRs
                           /\ rejSince' = (~SpecValid(Cmd(d)) /\ ~res.ok)
                           /\ accepted' = (accepted \/ res.ok)
                           /\ lastSplit' = midShow
                           /\ sinceShow' = IF d = lastDisp /\ sinceShow # "other"
                                           THEN "same" ELSE "other"
                  ELSE UNCHANGED <<inputBuffer, pin13, renderVars, inflight,
                                   dispCnt, histVars, sinceShow>>
          ELSE /\ runLen' = runLen + 1
               /\ midShow' = midShow
               /\ IF HasRoom(bufferPos)
                  THEN /\ inputBuffer' = [inputBuffer EXCEPT ![bufferPos] = c]
                       /\ bufferPos' = bufferPos + 1
                  ELSE UNCHANGED <<inputBuffer, bufferPos>>
               /\ UNCHANGED <<pin13, renderVars, inflight, dispCnt, histVars,
                              sinceShow>>
    /\ UNCHANGED <<leds, pc, hostVars, startAvail, startLines, exitAvail>>

(* The while condition fails: line 117, then on to the render check.       *)
DrainEndBlocking ==
    /\ pc = "drain"
    /\ ~DrainMore
    /\ UNCHANGED vars

DrainEnd ==
    /\ pc = "drain"
    /\ ~DrainMore
    /\ pc' = "render"
    /\ pin13' = FALSE
    /\ exitAvail' = SerialAvailable
    /\ last' = "drainEnd"
    /\ UNCHANGED <<renderVars, bufVars, leds, rx, hostVars, inflight, histVars,
                   sinceShow, midShow, iterVars, runLen>>

(* loop() returns and is called again: the counters of the new iteration.  *)
NextIteration ==
    /\ pc' = "drain"
    /\ startAvail' = Len(rx)
    /\ startLines' = CountLines(rx, bufferPos)
    /\ rdCnt' = 0
    /\ dispCnt' = 0

(* Lines 122-138 with needsUpdate set: composite, show, clear the flag.    *)
RenderResetsBuffer ==
    /\ pc = "render"
    /\ needsUpdate
    /\ leds' = Composite(RenderState)
    /\ needsUpdate' = FALSE
    /\ bufferPos' = 0
    /\ last' = "show"
    /\ sinceShow' = "none"
    /\ accepted' = FALSE
    /\ midShow' = (runLen > 0)
    /\ NextIteration
    /\ UNCHANGED <<paletteMode, paletteSize, paletteR, paletteG, paletteB,
                   currentR, currentG, currentB, inputBuffer, pin13, rx,
                   hostVars, inflight, lastDisp, lastOk, lastValid, validRs,
                   rejSince, lastSplit, exitAvail, runLen>>

Render ==
    /\ pc = "render"
    /\ needsUpdate
    /\ leds' = Composite(RenderState)
    /\ needsUpdate' = FALSE
    /\ last' = "show"
    /\ sinceShow' = "none"
    /\ accepted' = FALSE
    /\ midShow' = (runLen > 0)
    /\ NextIteration
    /\ UNCHANGED <<paletteMode, paletteSize, paletteR, paletteG, paletteB,
                   currentR, currentG, currentB, bufVars, pin13, rx, hostVars,
                   inflight, lastDisp, lastOk, lastValid, validRs, rejSince,
                   lastSplit, exitAvail, runLen>>

(* Line 122 with needsUpdate clear: nothing is transmitted.                *)
Idle ==
    /\ pc = "render"
    /\ ~needsUpdate
    /\ last' = "idle"
    /\ NextIteration
    /\ UNCHANGED <<renderVars, bufVars, leds, pin13, rx, hostVars, inflight,
                   histVars, sinceShow, midShow, exitAvail, runLen>>

Next ==
    \/ \E d \in Catalogue(suite) : Send(d)
    \/ Flush
    \/ ReadByte
    \/ DrainEnd
    \/ Render
    \/ Idle

Spec == Init /\ [][Next]_vars

(* A pass of the while loop body, told by the byte it takes: within Next   *)
(* only ReadByte removes the head of rx.                                   *)
ByteTaken == pc = "drain" /\ DrainMore /\ rx' = Tail(rx)

(* loop() is called again for ever, and each of its steps is taken.        *)
Running ==
    /\ WF_rx(ByteTaken)
    /\ WF_vars(DrainEnd)
    /\ WF_vars(Render)
    /\ WF_vars(Idle)

(* A host with MaxLines lines, the device running for ever.                *)
InitFair == Start({"mode", "reject"}, FALSE)
FairSpec == InitFair /\ [][Next]_vars /\ Running

(* A host that may go on sending for ever, the device running for ever.    *)
InitStream == Start({"solo"}, TRUE)
StreamSpec == InitStream /\ [][Next]_vars /\ Running

(* ================================ claims ============================== *)
ReadStep == rdCnt' = rdCnt + 1
DispatchStep == dispCnt' = dispCnt + 1
TransmitStep == pc = "render" /\ last' = "show" /\ pc' = "drain"
Pixels == 0..(NUM_LEDS - 1)

(* C1: a frame is transmitted only after the drain loop polled the serial  *)
(* input and found it empty, and by then every byte and every complete     *)
(* line queued when the iteration began has been read and dispatched.      *)
C1_DrainBeforeRender ==
    [][TransmitStep =>
          /\ last = "drainEnd"
          /\ exitAvail = 0
          /\ rdCnt >= startAvail
          /\ dispCnt >= startLines]_vars

C1_Witness ==
    /\ pc = "render" /\ needsUpdate
    /\ startLines >= 2 /\ dispCnt >= 2
    /\ rdCnt >= startAvail /\ startAvail > 0

(* C2: a palette line that fails leaves the whole Render State, palette    *)
(* slots included, as it was.                                              *)
C2_PaletteAllOrNothing ==
    [][(DispatchStep /\ IsPaletteLine(CStr(inputBuffer')) /\ ~lastOk')
          => RenderState' = RenderState]_vars

(* C3: with a rejected line after a valid command, the frame on display    *)
(* once the valid command is rendered is the frame that command alone      *)
(* produces.                                                               *)
C3_RejectionKeepsFrame ==
    (lastValid # 0 /\ rejSince /\ ~needsUpdate)
        => leds = Composite(validRs)

(* C4: the frame transmitted for a palette command of n colours gives      *)
(* pixel i the calibrated entry min(i / (NUM_LEDS / n), n - 1).            *)
C4_PaletteBlocks ==
    (last = "show" /\ lastValid # 0 /\ Cmd(lastValid).k = "pal")
        => LET d == Cmd(lastValid)
           IN  \A i \in Pixels :
                   leds[i] = SpecCal(d.cols[Min(i \div (NUM_LEDS \div d.n),
                                                d.n - 1) + 1])

(* C5: the frame transmitted for a flat line r,g,b is uniform, every pixel *)
(* the clamped and calibrated colour, whatever the sign and magnitude.     *)
C5_FlatUniform ==
    (last = "show" /\ lastValid # 0 /\ Cmd(lastValid).k = "flat")
        => LET c == Cmd(lastValid).cols[1]
           IN  \A i \in Pixels :
                   leds[i] = <<SpecClamp(c[1]),
                               (SpecClamp(c[2]) * 3) \div 4,
                               (SpecClamp(c[3]) * 9) \div 10>>

(* C6: a palette line of count n with n well-formed entries is committed   *)
(* exactly when 1 <= n <= MAX_PALETTE, with size n and all n entries; it   *)
(* changes nothing otherwise; and it reaches the parser untruncated.       *)
C6_CountBoundaries ==
    [][(DispatchStep /\ inflight # <<>>
            /\ Cmd(Head(inflight)).k = "pal"
            /\ Len(Cmd(Head(inflight)).cols) = Cmd(Head(inflight)).n
            /\ Cmd(Head(inflight)).raw = <<>>)
          => LET d == Cmd(Head(inflight))
             IN  /\ CStr(inputBuffer') = Text(d)
                 /\ lastOk' <=> (d.n >= 1 /\ d.n <= MAX_PALETTE)
                 /\ ~lastOk' => RenderState' = RenderState
                 /\ lastOk' =>
                      /\ paletteSize' = d.n
                      /\ paletteMode' /\ needsUpdate'
                      /\ \A i \in 0..(d.n - 1) :
                            <<paletteR'[i], paletteG'[i], paletteB'[i]>>
                                = SpecCal(d.cols[i + 1])]_vars

C6_Witness ==
    /\ lastDisp # 0 /\ Cmd(lastDisp).n = MAX_PALETTE /\ lastOk
    /\ paletteMode /\ paletteSize = MAX_PALETTE
    /\ last = "show"

(* C7: the transmitted frame is in the mode the last valid command set and *)
(* shows only the colours that command stored: one colour for a flat       *)
(* command, the command's palette entries for a palette command.           *)
ColoursOf(rs) ==
    IF rs.paletteMode
    THEN {CRGB(rs.paletteR[j], rs.paletteG[j], rs.paletteB[j]) :
             j \in 0..(rs.paletteSize - 1)}
    ELSE {CRGB(rs.currentR, rs.currentG, rs.currentB)}

C7_ModeSwitch ==
    (last = "show" /\ lastValid # 0)
        => /\ paletteMode <=> (Cmd(lastValid).k = "pal")
           /\ \A i \in Pixels : leds[i] \in ColoursOf(validRs)
           /\ Cmd(lastValid).cols = <<<<0, 0, 0>>>>
                 => \A i \in Pixels : leds[i] = <<0, 0, 0>>

(* C8: a valid line dispatched right after the same line changes nothing   *)
(* but the needs-render flag, and a transmit after only repeats of the     *)
(* line shown by the previous transmit sends the same frame again.         *)
C8_Idempotent ==
    [][/\ (DispatchStep /\ inflight # <<>> /\ Head(inflight) = lastDisp
              /\ lastOk /\ SpecValid(Cmd(lastDisp)))
          => RenderState' = [RenderState EXCEPT !.needsUpdate = TRUE]
       /\ (TransmitStep /\ sinceShow = "same" /\ SpecValid(Cmd(lastDisp)))
          => leds' = leds]_vars

C8_Witness ==
    /\ pc = "render" /\ needsUpdate
    /\ sinceShow = "same" /\ lastOk /\ SpecValid(Cmd(lastDisp))
    /\ leds # [i \in Pixels |-> <<0, 0, 0>>]

(* C9: the parser is invoked exactly when a terminator is read after a     *)
(* non-empty run of other bytes, on the lines in the order sent, and every *)
(* terminator leaves the buffer position at 0.                             *)
IsPrefix(a, b) == Len(a) <= Len(b) /\ a = SubSeq(b, 1, Len(a))

C9_Framing ==
    [][ReadStep =>
          /\ DispatchStep <=> (IsTerminator(Head(rx)) /\ runLen > 0)
          /\ IsTerminator(Head(rx)) => bufferPos' = 0
          /\ DispatchStep =>
                /\ inflight # <<>>
                /\ lastDisp' = Head(inflight)
                /\ inflight' = Tail(inflight)
                /\ CStr(inputBuffer') # <<>>
                /\ IsPrefix(CStr(inputBuffer'), Text(Cmd(Head(inflight))))]_vars

C9_Witness ==
    /\ lastDisp # 0 /\ Cmd(lastDisp).term = <<CR, LF>>
    /\ rx = <<>> /\ wire = <<>> /\ inflight = <<>>
    /\ last = "read" /\ bufferPos = 0
    /\ dispCnt = 1 /\ rdCnt = Len(WireTable[lastDisp])

(* C10: the buffer position stays within 0 .. BUF_SIZE - 1, so the byte    *)
(* and terminator writes at inputBuffer[bufferPos] are inside the buffer.  *)
C10_BufferBound ==
    /\ bufferPos >= 0
    /\ bufferPos <= BUF_SIZE - 1
    /\ bufferPos \in DOMAIN inputBuffer

C10_Witness ==
    /\ bufferPos = BUF_LIMIT
    /\ runLen > BUF_LIMIT

(* The first n characters of a line.                                       *)
Prefix(t, n) == SubSeq(t, 1, Min(Len(t), n))

(* C11 as stated: the text dispatched for a line of L characters is its    *)
(* first min(L, BUF_SIZE - 1) characters, whatever line came before it.    *)
C11_TruncationToCapacity ==
    [][(DispatchStep /\ inflight # <<>>)
          => CStr(inputBuffer')
                = Prefix(Text(Cmd(Head(inflight))), BUF_SIZE - 1)]_vars

(* C11 amended: the text dispatched for a line of L characters is its      *)
(* first min(L, BUF_SIZE - 2) characters, whatever line came before it.    *)
C11_TruncationToLimit ==
    [][(DispatchStep /\ inflight # <<>>)
          => CStr(inputBuffer')
                = Prefix(Text(Cmd(Head(inflight))), BUF_SIZE - 2)]_vars

(* A short line dispatched after an over-long one, whose characters still  *)
(* lie in the buffer up to its limit.                                      *)
C11_Witness ==
    /\ lastDisp # 0 /\ Cmd(lastDisp).k = "flat" /\ lastOk
    /\ last = "read" /\ bufferPos = 0
    /\ inputBuffer[BUF_LIMIT - 1] = FillChar
    /\ inputBuffer[BUF_LIMIT] = NUL

(* C12: a dispatched line that neither begins with P: nor is exactly three *)
(* comma-separated integers leaves the Render State, needs-render flag     *)
(* included, as it was; a line that begins with P: is handled as a palette *)
(* line only, so it never sets the flat colour nor leaves palette mode.    *)
C12_UnrecognizedNoOp ==
    [][(DispatchStep /\ inflight # <<>>)
          => LET d == Cmd(Head(inflight))
             IN  /\ (d.k \in {"junk", "fill"} /\ ~IsPaletteLine(Text(d)))
                       => RenderState' = RenderState
                 /\ IsPaletteLine(Text(d))
                       => /\ <<currentR', currentG', currentB'>>
                                = <<currentR, currentG, currentB>>
                          /\ lastOk' => paletteMode'
                          /\ ~lastOk' => (paletteMode' <=> paletteMode)]_vars

(* loop() returns: the render check of line 122 has been passed.           *)
IterationEnd == pc = "render" /\ pc' = "drain"

(* C13: an iteration transmits a frame exactly when needs-render is set at *)
(* the end of its drain phase, which is exactly when a command was         *)
(* accepted since the last transmit; the flag is clear when the iteration  *)
(* ends; an iteration that transmits nothing leaves the frame alone, and   *)
(* one that transmits shows the last command accepted.                     *)
C13_RenderScheduling ==
    [][IterationEnd
          => /\ TransmitStep <=> needsUpdate
             /\ needsUpdate <=> accepted
             /\ ~needsUpdate'
             /\ ~TransmitStep => leds' = leds
             /\ TransmitStep => leds' = Composite(validRs)]_vars

(* C14: whenever a command has set needs-render, a frame is eventually     *)
(* transmitted that leaves the flag clear and shows the Render State as    *)
(* the last command accepted before it left it.                            *)
C14_EventuallyShown ==
    needsUpdate ~> (last = "show" /\ ~needsUpdate /\ leds = Composite(validRs))

(* Bytes reach the serial input.                                           *)
Arrival == Len(rx') > Len(rx)

(* With no byte available the only step of the device is to leave the     *)
(* drain phase.                                                            *)
NoWaiting ==
    [][(pc = "drain" /\ rx = <<>> /\ rx' = rx) => pc' = "render"]_vars

(* C15 as stated: whatever bytes arrive and whenever, the drain phase ends *)
(* and the render check is reached, so a pending render is carried out;    *)
(* with no input available the drain phase ends at once.                   *)
C15_DrainTerminates ==
    /\ (pc = "drain") ~> (pc = "render")
    /\ needsUpdate ~> ~needsUpdate
    /\ NoWaiting

(* C15 amended: the same, provided bytes stop arriving from some time on.  *)
C15_DrainTerminatesOnceInputStops ==
    /\ (<>[][~Arrival]_vars)
          => /\ (pc = "drain") ~> (pc = "render")
             /\ needsUpdate ~> ~needsUpdate
    /\ NoWaiting

(* A drain phase that consumed lines of a never-ending host has ended with *)
(* a render pending.                                                       *)
C15_Witness ==
    /\ endless
    /\ pc = "render" /\ last = "drainEnd" /\ needsUpdate
    /\ exitAvail = 0 /\ lastDisp # 0 /\ sinceShow = "same"

(* C16 as stated: whenever a frame is transmitted the line buffer is       *)
(* empty.                                                                  *)
C16_BufferEmptyAtTransmit ==
    [][TransmitStep => bufferPos = 0]_vars

(* C16 amended: whenever a frame is transmitted the poll before it found   *)
(* no byte available, and the line buffer holds the characters received    *)
(* of the line not yet terminated, up to its limit; it is empty only if    *)
(* none was received.                                                      *)
C16_NoRenderInsideDrain ==
    [][TransmitStep
          => /\ exitAvail = 0
             /\ bufferPos = Min(runLen, BUF_LIMIT)
             /\ bufferPos = 0 <=> runLen = 0]_vars

(* A frame was transmitted with a line partly accumulated.                 *)
C16_Witness ==
    /\ last = "show" /\ midShow
    /\ bufferPos > 0 /\ bufferPos = runLen
    /\ wire # <<>>

(* C17: the render phase, transmitting or not, changes nothing of the      *)
(* Render State but the needs-render flag and nothing of the line buffer;  *)
(* and a line with a transmit between its bytes is dispatched once, as the *)
(* text it is dispatched as when it arrives in one piece.                  *)
C17_RenderTouchesFrameOnly ==
    [][/\ IterationEnd
          => /\ [RenderState' EXCEPT !.needsUpdate = needsUpdate] = RenderState
             /\ inputBuffer' = inputBuffer
             /\ bufferPos' = bufferPos
             /\ ~TransmitStep => (leds' = leds /\ needsUpdate' = needsUpdate)
       /\ (DispatchStep /\ midShow)
          => /\ inflight # <<>>
             /\ lastDisp' = Head(inflight)
             /\ inflight' = Tail(inflight)
             /\ CStr(inputBuffer')
                   = Prefix(Text(Cmd(Head(inflight))), BUF_LIMIT)]_vars

(* A valid line with a transmit between its bytes has been dispatched and  *)
(* accepted.                                                               *)
C17_Witness ==
    /\ lastSplit /\ lastOk /\ lastDisp # 0
    /\ last = "read" /\ bufferPos = 0 /\ needsUpdate

(* C18: in palette mode the palette size is within 1 .. MAX_PALETTE, so    *)
(* the block size of the compositor is at least 1 and the slot it reads    *)
(* for every pixel is one of the first paletteSize slots.                  *)
C18_PaletteModeInvariant ==
    paletteMode
        => /\ paletteSize >= 1
           /\ paletteSize <= MAX_PALETTE
           /\ NUM_LEDS \div paletteSize >= 1
           /\ \A i \in Pixels :
                 /\ PaletteIndex(i, paletteSize) >= 0
                 /\ PaletteIndex(i, paletteSize) <= paletteSize - 1

(* A palette of three colours on display: 256 / 3 = 85, so pixel 255 falls *)
(* in block 3 and is given the last slot, 2.                               *)
C18_Witness ==
    /\ paletteMode /\ paletteSize = 3 /\ last = "show"
    /\ (NUM_LEDS - 1) \div (NUM_LEDS \div paletteSize) = paletteSize
    /\ leds[NUM_LEDS - 1] = CRGB(paletteR[2], paletteG[2], paletteB[2])
    /\ leds[NUM_LEDS - 1] # leds[0]

(* The hex digits in either case, in the order of their values.            *)
UpperDigits == [k \in 1..16 |-> IF k <= 10 THEN CH_0 + (k - 1)
                                ELSE CH_A + (k - 11)]
LowerDigits == [k \in 1..16 |-> IF k <= 10 THEN CH_0 + (k - 1)
                                ELSE CH_a + (k - 11)]

(* v(c): the value of a hex digit, and 0 for any other character.          *)
SpecDigitValue(c) ==
    IF \E k \in 1..16 : UpperDigits[k] = c
    THEN (CHOOSE k \in 1..16 : UpperDigits[k] = c) - 1
    ELSE IF \E k \in 1..16 : LowerDigits[k] = c
    THEN (CHOOSE k \in 1..16 : LowerDigits[k] = c) - 1
    ELSE 0

SpecByte(hi, lo) == 16 * SpecDigitValue(hi) + SpecDigitValue(lo)

Chars == 0..127

(* The entries of a palette line: what follows P:n: .                      *)
EntryText(d) ==
    SubSeq(Text(d), Len(Itoa(d.n)) + 4, Len(Text(d)))

(* Where entry i (from 0) begins: six characters on from the entry before, *)
(* and one more if a colon stands there.                                   *)
SkipColon(e, p) == IF p <= Len(e) /\ e[p] = COLON THEN p + 1 ELSE p

RECURSIVE EntryStart(_, _)
EntryStart(e, i) ==
    IF i = 0 THEN 1 ELSE SkipColon(e, EntryStart(e, i - 1) + 6)

(* C19: hexToByte(hi, lo) is 16 v(hi) + v(lo), within 0 .. 255; a palette  *)
(* line with a count within 1 .. MAX_PALETTE and six characters for every  *)
(* entry is committed with every slot decoded that way, characters that    *)
(* are no hex digits counting as zero, a colon among them included.        *)
C19_LenientHex ==
    [][(DispatchStep /\ inflight # <<>>
            /\ Cmd(Head(inflight)).k = "pal"
            /\ Cmd(Head(inflight)).n >= 1
            /\ Cmd(Head(inflight)).n <= MAX_PALETTE
            /\ LET d == Cmd(Head(inflight))
               IN  EntryStart(EntryText(d), d.n - 1) + 5 <= Len(EntryText(d)))
          => LET d == Cmd(Head(inflight))
                 e == EntryText(d)
             IN  /\ lastOk' /\ paletteMode' /\ needsUpdate'
                 /\ paletteSize' = d.n
                 /\ \A i \in 0..(d.n - 1) :
                       <<paletteR'[i], paletteG'[i], paletteB'[i]>>
                          = SpecCal(<<SpecByte(e[EntryStart(e, i)],
                                               e[EntryStart(e, i) + 1]),
                                      SpecByte(e[EntryStart(e, i) + 2],
                                               e[EntryStart(e, i) + 3]),
                                      SpecByte(e[EntryStart(e, i) + 4],
                                               e[EntryStart(e, i) + 5])>>)
                 /\ d.raw # <<>>
                       => \A hi, lo \in Chars :
                             /\ hexToByte(hi, lo) = SpecByte(hi, lo)
                             /\ hexToByte(hi, lo) >= 0
                             /\ hexToByte(hi, lo) <= 255]_vars

(* The line P:2:G7:z9Z:0AbCdE was committed and is on display: G, : and z  *)
(* and Z count as zero, so slot 0 is decoded from 07, 00 and 90.           *)
C19_Witness ==
    /\ lastDisp # 0 /\ Cmd(lastDisp).raw = OddEntries /\ lastOk
    /\ paletteMode /\ paletteSize = 2 /\ last = "show"
    /\ <<paletteR[0], paletteG[0], paletteB[0]>>
          = SpecCal(<<7, 0, 9 * 16>>)
    /\ <<paletteR[1], paletteG[1], paletteB[1]>>
          = SpecCal(<<10, 11 * 16 + 12, 13 * 16 + 14>>)

(* loop() is about to begin: setup() or the iteration before has ended.    *)
AtBoundary == pc = "drain" /\ last \in {"setup", "show", "idle"}

(* C20: at every iteration boundary with the needs-render flag clear the   *)
(* frame on display is the composition of the Render State as it is then.  *)
C20_FrameMatchesState ==
    (AtBoundary /\ ~needsUpdate) => leds = Composite(RenderState)

====
